---- MODULE Spec2Model ----
(***************************************************************************)
(* Count sketch (src/unnamed/part_000): the in-memory, streaming and       *)
(* map-reduce implementations, as one notebook session.  The matrix is     *)
(* loaded once; each call of one of the three functions draws its own hash *)
(* buckets and signs (np.random is a nondeterministic choice), runs to its *)
(* return or to the exception it raises.  Entries are integers (as in the  *)
(* notebook data set), so sums are exact.  Rows, columns and buckets are   *)
(* numbered from 0 as in numpy.                                            *)
(* Incomplete adaptive sampling (src/adaptivesampling/adaptivesampling.    *)
(* ipynb): one call of incompleteAdaptiveSampling on the same matrix.      *)
(***************************************************************************)
EXTENDS Integers, Sequences, FiniteSets, TLC

\* ---------------------------------------------------------------- bounds
MaxN == 2                 \* the matrix has 0 .. MaxN columns
MaxS == 2                 \* the sketch size is -1 .. MaxS
RowCounts == {1, 2}       \* the matrix has 1 or 2 rows
Vals == {1, 2}            \* its entries
PartitionIds == {1, 2}    \* the input partitions of the map-reduce job
MaxC2 == 2                \* adaptive sampling is asked for -1 .. MaxC2 columns

VARIABLES
    matrixA,        \* the caller's matrix (line 50), never reassigned by a call
    fn,             \* the function of the current call
    pc,             \* where the current call is
    s,              \* the sketch size passed to the current call
    arrival,        \* streaming: the logical column standing at each position of the passed matrix
    hashedIndices,  \* the call's bucket draws, by position (lines 101, 180, 257)
    randSigns,      \* the call's sign draws, by position (lines 102, 181, 257)
    signedA,        \* in-memory: the local rebinding of matrixA (line 103)
    matrixC,        \* the call's accumulator (lines 100, 179)
    i,              \* in-memory loop counter (line 104)
    j,              \* streaming loop counter (line 182)
    parts,          \* map-reduce: the input partition of each line of the file
    ran,            \* map-reduce: the partitions whose map task has run
    local,          \* map-reduce: per partition, the locally combined pairs of its map task
    merged,         \* map-reduce: the partitions whose pairs the reducer has merged
    reduced,        \* map-reduce: the reducer's pairs so far
    err,            \* the exception the call raised, or "none"
    result,         \* what the call returned, or NoResult
    c2,             \* adaptive sampling: the number of columns asked for
    matrixC1,       \* adaptive sampling: the rows (coordinates) the columns of C1 span
    indexAtilde,    \* adaptive sampling: the oversampled column indices (line 212)
    prob,           \* adaptive sampling: the sampling probabilities (lines 219-221)
    indexC2         \* adaptive sampling: the positions drawn from indexAtilde (line 222)

vars == << matrixA, fn, pc, s, arrival, hashedIndices, randSigns, signedA, matrixC,
           i, j, parts, ran, local, merged, reduced, err, result,
           c2, matrixC1, indexAtilde, prob, indexC2 >>

\* The state of a call of incompleteAdaptiveSampling, which no sketch touches
adaptVars == << c2, matrixC1, indexAtilde, prob, indexC2 >>

\* The state of a sketch call, which incompleteAdaptiveSampling does not touch
sketchVars == << arrival, hashedIndices, randSigns, signedA, matrixC, i, j, parts,
                 ran, local, merged, reduced >>

\* ----------------------------------------------------------- numpy arrays
Rows(m) == 0 .. (m - 1)
Cols(n) == 0 .. (n - 1)

\* A 2-d array of shape (rows, cols); val[r][c] is its entry.
Array2(m, n, f) == [ndim |-> 2, rows |-> m, cols |-> n, val |-> f]

\* np.zeros([m, s]) (lines 100, 179)
Zeros(m, w) == Array2(m, w, [r \in Rows(m) |-> [c \in Cols(w) |-> 0]])

\* np.asarray([]) : a 1-d array of length 0, which .T leaves as it is (line 260)
EmptyArray1 == [ndim |-> 1, rows |-> 0, cols |-> 0, val |-> << >>]

NoResult == [ndim |-> 0, rows |-> 0, cols |-> 0, val |-> << >>]

Matrices ==
    UNION { UNION { { Array2(m, n, f) : f \in [Rows(m) -> [Cols(n) -> Vals]] }
                    : n \in 0 .. MaxN } : m \in RowCounts }

Widths == (-1) .. MaxS

\* np.random.choice(s, n, replace=True) (lines 101, 180): n draws from 0..s-1
BucketDraws(n, w) == [Cols(n) -> Cols(w)]

\* np.random.choice(2, n, replace=True) * 2 - 1 (lines 102, 181)
SignDraws(n) == [Cols(n) -> {-1, 1}]

\* The sum of f[c] over the columns c of S, taken in index order.
RECURSIVE SumFrom(_, _, _)
SumFrom(f, S, c) ==
    IF c < 0 THEN 0
    ELSE SumFrom(f, S, c - 1) + (IF c \in S THEN f[c] ELSE 0)

\* np.sum(M[:, idx], 1)[r] (line 106): row r summed over the selected columns
RowSum(M, idx, r) == SumFrom(M.val[r], idx, M.cols - 1)

\* ------------------------------------------------- countSketchInMemroy
\* Variant of line 103 that leaves the signs as they are.
FlipSignsNoFlip(A, g) == A

\* matrixA * randSigns.reshape(1, n) (line 103): a new array, column c scaled by g[c]
FlipSigns(A, g) ==
    Array2(A.rows, A.cols, [r \in Rows(A.rows) |-> [c \in Cols(A.cols) |-> A.val[r][c] * g[c]]])

\* Variant of line 103 written "matrixA *= ...": the caller's array is scaled in place.
CallerArrayFlippedInPlace(A, g) ==
    Array2(A.rows, A.cols, [r \in Rows(A.rows) |-> [c \in Cols(A.cols) |-> A.val[r][c] * g[c]]])

\* The caller's array after line 103: the product is a new array and the assignment
\* rebinds the local name only, so the array passed in is not written.
CallerArrayAfterFlip(A, g) == A

\* idx = (hashedIndices == b) (line 105)
Idx(h, b) == { c \in DOMAIN h : h[c] = b }

\* matrixC[:, b] = np.sum(matrixA[:, idx], 1) (line 106)
SetBucket(C, sA, h, b) ==
    [C EXCEPT !.val = [r \in Rows(C.rows) |->
                          [C.val[r] EXCEPT ![b] = RowSum(sA, Idx(h, b), r)]]]

\* The loop of lines 104-106 run for i = 0 .. k-1
RECURSIVE InMemroyLoopTo(_, _, _, _)
InMemroyLoopTo(C, sA, h, k) ==
    IF k <= 0 THEN C ELSE SetBucket(InMemroyLoopTo(C, sA, h, k - 1), sA, h, k - 1)

\* countSketchInMemroy(A, w) with the draws h and g: what lines 99-107 return
InMemroyRun(A, w, h, g) == InMemroyLoopTo(Zeros(A.rows, w), FlipSigns(A, g), h, w)

Blank == << >>

\* The call of any of the three functions leaves the other functions' locals blank.
InMemroyCall ==
    /\ pc = "idle"
    /\ \E w \in Widths :
        /\ s' = w
        /\ fn' = "InMemroy"
        /\ arrival' = Blank /\ j' = 0
        /\ parts' = Blank /\ ran' = {} /\ local' = Blank /\ merged' = {} /\ reduced' = Blank
        /\ result' = NoResult
        /\ i' = 0
        /\ \/ \* np.zeros([m, s]) raises for a negative dimension (line 100)
              /\ w < 0
              /\ err' = "ValueError" /\ pc' = "done"
              /\ matrixC' = Blank /\ hashedIndices' = Blank /\ randSigns' = Blank
              /\ signedA' = Blank
              /\ UNCHANGED matrixA
           \/ \* np.random.choice(0, n) raises when samples are asked for (line 101);
              \* with n = 0 it raises or returns no draws, depending on the numpy build
              /\ w = 0
              /\ err' = "ValueError" /\ pc' = "done"
              /\ matrixC' = Zeros(matrixA.rows, w)
              /\ hashedIndices' = Blank /\ randSigns' = Blank /\ signedA' = Blank
              /\ UNCHANGED matrixA
           \/ /\ (w > 0) \/ (w = 0 /\ matrixA.cols = 0)
              /\ err' = "none" /\ pc' = "inmem_loop"
              /\ matrixC' = Zeros(matrixA.rows, w)
              /\ \E h \in BucketDraws(matrixA.cols, w), g \in SignDraws(matrixA.cols) :
                    /\ hashedIndices' = h
                    /\ randSigns' = g
                    /\ signedA' = FlipSigns(matrixA, g)
                    /\ matrixA' = CallerArrayAfterFlip(matrixA, g)
    /\ UNCHANGED adaptVars

\* for i in range(s): one pass of the loop body (lines 104-106)
InMemroyLoop ==
    /\ pc = "inmem_loop"
    /\ i < s
    /\ matrixC' = SetBucket(matrixC, signedA, hashedIndices, i)
    /\ i' = i + 1
    /\ UNCHANGED << matrixA, fn, pc, s, arrival, hashedIndices, randSigns, signedA,
                    j, parts, ran, local, merged, reduced, err, result >>
    /\ UNCHANGED adaptVars

\* return matrixC (line 107)
InMemroyReturn ==
    /\ pc = "inmem_loop"
    /\ i >= s
    /\ result' = matrixC
    /\ pc' = "done"
    /\ UNCHANGED << matrixA, fn, s, arrival, hashedIndices, randSigns, signedA, matrixC,
                    i, j, parts, ran, local, merged, reduced, err >>
    /\ UNCHANGED adaptVars

\* ------------------------------------------------- countSketchStreaming
\* The orders in which the columns of S can stand: bijections from 0..|S|-1 onto S.
Perms(S) ==
    { f \in [Cols(Cardinality(S)) -> S] : \A a, b \in DOMAIN f : a # b => f[a] # f[b] }

\* matrixA[:, c] (line 183): column c as a vector over the rows
Column(M, c) == [r \in Rows(M.rows) |-> M.val[r][c]]

\* The matrix passed to the streaming call: position k holds logical column order[k].
Fed(A, order) ==
    Array2(A.rows, A.cols, [r \in Rows(A.rows) |-> [k \in Cols(A.cols) |-> A.val[r][order[k]]]])

\* Variants of line 186: "+= a", without the sign, and "= g * a", without the sum.
StreamAddDropSign(C, a, h, g) ==
    [C EXCEPT !.val = [r \in Rows(C.rows) |-> [C.val[r] EXCEPT ![h] = @ + a[r]]]]

StreamAddOverwrite(C, a, h, g) ==
    [C EXCEPT !.val = [r \in Rows(C.rows) |-> [C.val[r] EXCEPT ![h] = g * a[r]]]]

\* matrixC[:, h] += g * a (line 186)
StreamAdd(C, a, h, g) ==
    [C EXCEPT !.val = [r \in Rows(C.rows) |-> [C.val[r] EXCEPT ![h] = @ + g * a[r]]]]

\* The caller's array after lines 183-186: a is a view of column k, g * a is a new
\* array, and only matrixC is written.
CallerArrayAfterFold(A, k, g) == A

\* The loop of lines 182-186 run for j = 0 .. k-1
RECURSIVE StreamingLoopTo(_, _, _, _, _)
StreamingLoopTo(C, A, h, g, k) ==
    IF k <= 0 THEN C
    ELSE StreamAdd(StreamingLoopTo(C, A, h, g, k - 1), Column(A, k - 1), h[k - 1], g[k - 1])

\* countSketchStreaming(A, w) with the draws h and g: what lines 178-187 return
StreamingRun(A, w, h, g) == StreamingLoopTo(Zeros(A.rows, w), A, h, g, A.cols)

StreamingCall ==
    /\ pc = "idle"
    /\ \E w \in Widths, order \in Perms(Cols(matrixA.cols)) :
        /\ s' = w
        /\ fn' = "Streaming"
        /\ arrival' = order
        /\ i' = 0 /\ j' = 0 /\ signedA' = Blank
        /\ parts' = Blank /\ ran' = {} /\ local' = Blank /\ merged' = {} /\ reduced' = Blank
        /\ result' = NoResult
        /\ \/ \* np.zeros([m, s]) raises for a negative dimension (line 179)
              /\ w < 0
              /\ err' = "ValueError" /\ pc' = "done"
              /\ matrixC' = Blank /\ hashedIndices' = Blank /\ randSigns' = Blank
           \/ \* np.random.choice(0, n) (line 180), as in the in-memory call
              /\ w = 0
              /\ err' = "ValueError" /\ pc' = "done"
              /\ matrixC' = Zeros(matrixA.rows, w)
              /\ hashedIndices' = Blank /\ randSigns' = Blank
           \/ /\ (w > 0) \/ (w = 0 /\ matrixA.cols = 0)
              /\ err' = "none" /\ pc' = "stream_loop"
              /\ matrixC' = Zeros(matrixA.rows, w)
              /\ \E h \in BucketDraws(matrixA.cols, w), g \in SignDraws(matrixA.cols) :
                    /\ hashedIndices' = h
                    /\ randSigns' = g
    /\ UNCHANGED matrixA
    /\ UNCHANGED adaptVars

\* for j in range(n): one pass of the loop body (lines 182-186)
StreamingLoop ==
    /\ pc = "stream_loop"
    /\ j < matrixA.cols
    /\ LET a == Column(Fed(matrixA, arrival), j)
           h == hashedIndices[j]
           g == randSigns[j]
       IN  /\ matrixC' = StreamAdd(matrixC, a, h, g)
           /\ matrixA' = CallerArrayAfterFold(matrixA, arrival[j], g)
    /\ j' = j + 1
    /\ UNCHANGED << fn, pc, s, arrival, hashedIndices, randSigns, signedA,
                    i, parts, ran, local, merged, reduced, err, result >>
    /\ UNCHANGED adaptVars

\* Variant of line 187 with the return indented into the loop body: it returns
\* after the first pass.
StreamingReturnInsideLoop ==
    /\ pc = "stream_loop"
    /\ j >= 1 \/ matrixA.cols = 0
    /\ result' = matrixC
    /\ pc' = "done"
    /\ UNCHANGED << matrixA, fn, s, arrival, hashedIndices, randSigns, signedA, matrixC,
                    i, j, parts, ran, local, merged, reduced, err >>
    /\ UNCHANGED adaptVars

\* return matrixC (line 187)
StreamingReturn ==
    /\ pc = "stream_loop"
    /\ j >= matrixA.cols
    /\ result' = matrixC
    /\ pc' = "done"
    /\ UNCHANGED << matrixA, fn, s, arrival, hashedIndices, randSigns, signedA, matrixC,
                    i, j, parts, ran, local, merged, reduced, err >>
    /\ UNCHANGED adaptVars

\* ------------------------------------------------- countSketchMapReduce
\* sc.textFile(filepath) (line 253): the lines of the file (the columns of matrixA,
\* line 50) are split into consecutive input partitions, some possibly empty.
Splits(n) ==
    { f \in [Cols(n) -> PartitionIds] : \A a, b \in Cols(n) : a < b => f[a] <= f[b] }

VecAdd(v1, v2) == [r \in DOMAIN v1 |-> v1[r] + v2[r]]
Scale(g, v) == [r \in DOMAIN v |-> g * v[r]]

\* Variant of the map side without the combine of reduceByKey: the task ships one
\* pair per vector of its partition (kept apart here by column index).
MapOutputUncombined(A, f, p, h, g, c) ==
    [k \in { x \in Cols(c + 1) : f[x] = p } |-> Scale(g[k], Column(A, k))]

\* A map task's output after the map-side combine of reduceByKey (lines 257, 259):
\* the pairs (key, signed vector) of columns lo..hi that stand in partition p, taken
\* in file order, summed by key with v1 + v2.
RECURSIVE CombineByKey(_, _, _, _, _, _)
CombineByKey(A, f, p, h, g, c) ==
    IF c < 0 THEN << >>
    ELSE LET d == CombineByKey(A, f, p, h, g, c - 1)
             v == Scale(g[c], Column(A, c))
         IN  IF f[c] # p THEN d
             ELSE IF h[c] \in DOMAIN d
                  THEN [d EXCEPT ![h[c]] = VecAdd(@, v)]
                  ELSE [k \in DOMAIN d \cup {h[c]} |-> IF k = h[c] THEN v ELSE d[k]]

\* The reducer merging one map output into what it holds, by key with v1 + v2 (line 259)
MergeByKey(d1, d2) ==
    [k \in DOMAIN d1 \cup DOMAIN d2 |->
        IF k \in DOMAIN d1 /\ k \in DOMAIN d2 THEN VecAdd(d1[k], d2[k])
        ELSE IF k \in DOMAIN d1 THEN d1[k] ELSE d2[k]]

\* np.asarray(vectList).T (line 260): the collected vectors as the columns of the
\* result, in the order they were collected; of no vectors, the empty 1-d array.
AsArrayT(d, order, m) ==
    IF DOMAIN order = {} THEN EmptyArray1
    ELSE Array2(m, Cardinality(DOMAIN order),
                [r \in Rows(m) |-> [k \in DOMAIN order |-> d[order[k]][r]]])

ColsOf(f, p) == { c \in DOMAIN f : f[c] = p }

\* The call: nothing runs before collect() (line 259); the RDDs are only described.
MapReduceCall ==
    /\ pc = "idle"
    /\ \E w \in Widths, f \in Splits(matrixA.cols) :
        /\ s' = w
        /\ parts' = f
    /\ fn' = "MapReduce"
    /\ pc' = "mr_run"
    /\ ran' = {}
    /\ local' = [p \in PartitionIds |-> << >>]
    /\ merged' = {}
    /\ reduced' = << >>
    /\ hashedIndices' = << >> /\ randSigns' = << >>
    /\ arrival' = Blank /\ signedA' = Blank /\ matrixC' = Blank /\ i' = 0 /\ j' = 0
    /\ err' = "none"
    /\ result' = NoResult
    /\ UNCHANGED matrixA
    /\ UNCHANGED adaptVars

\* One run of the map task of partition p: the lambda of line 257 draws a key and a
\* sign for every vector of the partition, each time it is applied.
RunTask(p) ==
    LET mine == ColsOf(parts, p)
        others == DOMAIN hashedIndices \ mine
    IN  \/ \* np.random.randint(0, s) raises for s <= 0: the job fails
           /\ s <= 0 /\ mine # {}
           /\ err' = "ValueError" /\ pc' = "done"
           /\ UNCHANGED << hashedIndices, randSigns, ran, local >>
        \/ /\ s > 0 \/ mine = {}
           /\ \E h \in [mine -> Cols(s)], g \in [mine -> {-1, 1}] :
                LET hh == [c \in mine \cup others |-> IF c \in mine THEN h[c] ELSE hashedIndices[c]]
                    gg == [c \in mine \cup others |-> IF c \in mine THEN g[c] ELSE randSigns[c]]
                IN  /\ hashedIndices' = hh
                    /\ randSigns' = gg
                    /\ local' = [local EXCEPT ![p] =
                                    CombineByKey(matrixA, parts, p, hh, gg, matrixA.cols - 1)]
                    /\ ran' = ran \cup {p}
           /\ UNCHANGED << err, pc >>

MapTask ==
    /\ pc = "mr_run"
    /\ \E p \in PartitionIds :
        /\ p \notin ran
        /\ RunTask(p)
    /\ UNCHANGED << matrixA, fn, s, arrival, signedA, matrixC, i, j, parts, merged,
                    reduced, result >>
    /\ UNCHANGED adaptVars

\* A map task whose output was lost before the reducer fetched it is run again.
RetryTask ==
    /\ pc = "mr_run"
    /\ \E p \in PartitionIds :
        /\ p \in ran
        /\ p \notin merged
        /\ RunTask(p)
    /\ UNCHANGED << matrixA, fn, s, arrival, signedA, matrixC, i, j, parts, merged,
                    reduced, result >>
    /\ UNCHANGED adaptVars

\* reduceByKey (line 259): once every map task has run, the reducer merges the map
\* outputs, in any order.
ReduceMerge ==
    /\ pc = "mr_run"
    /\ ran = PartitionIds
    /\ \E p \in PartitionIds \ merged :
        /\ reduced' = MergeByKey(reduced, local[p])
        /\ merged' = merged \cup {p}
    /\ UNCHANGED << matrixA, fn, pc, s, arrival, hashedIndices, randSigns, signedA,
                    matrixC, i, j, parts, ran, local, err, result >>
    /\ UNCHANGED adaptVars

\* .map(lambda pair: pair[1]).collect() and the return (lines 259-260): the keys are
\* dropped and the vectors come in the order the engine holds them.
Collect ==
    /\ pc = "mr_run"
    /\ merged = PartitionIds
    /\ \E order \in Perms(DOMAIN reduced) :
        result' = AsArrayT(reduced, order, matrixA.rows)
    /\ pc' = "done"
    /\ UNCHANGED << matrixA, fn, s, arrival, hashedIndices, randSigns, signedA, matrixC,
                    i, j, parts, ran, local, merged, reduced, err >>
    /\ UNCHANGED adaptVars

\* ------------------------------------------- incompleteAdaptiveSampling
\* (src/adaptivesampling/adaptivesampling.ipynb, lines 208-223)

\* The requested numbers of columns
Counts == (-1) .. MaxC2

\* The matrices C1 passed: their columns are coordinate vectors, and C1 stands as
\* the non-empty set of rows they span (so that Q Q^T of lines 215-216 is exact).
C1Choices(m) == (SUBSET Rows(m)) \ {{}}

\* s = min(n, 5 * c2) (line 211)
OversamplingParameter(n, k) == IF n < 5 * k THEN n ELSE 5 * k

\* np.random.choice(a, k, replace=False): the arrays of k distinct values of S
DistinctDraws(k, S) ==
    { f \in [Cols(k) -> S] : \A x, y \in Cols(k) : x # y => f[x] # f[y] }

\* Column c of matrixAtilde - Q Q^T matrixAtilde (lines 213-217): the projection on
\* the span of C1 takes away the rows that C1 spans.
Residual(A, K, c) == [r \in Rows(A.rows) |-> IF r \in K THEN 0 ELSE A.val[r][c]]

\* sum(np.square(matrixRes)) at one column (lines 219-220)
SquaredNorm(v) == SumFrom([r \in DOMAIN v |-> v[r] * v[r]], DOMAIN v, Cardinality(DOMAIN v) - 1)

\* prob / sum(prob) (line 221): each entry as the fraction << numerator, denominator >>;
\* with a zero sum every entry is 0/0 (nan).
Normalised(w) ==
    LET total == SumFrom(w, DOMAIN w, Cardinality(DOMAIN w) - 1)
    IN  [k \in DOMAIN w |-> << w[k], total >>]

IsNaN(q) == q[2] = 0

\* The positions a draw with probabilities q can yield
Support(q) == { k \in DOMAIN q : q[k][1] > 0 /\ q[k][2] > 0 }

\* The call (lines 208-211)
AdaptiveCall ==
    /\ pc = "idle"
    /\ \E k \in Counts, K \in C1Choices(matrixA.rows) :
        /\ c2' = k
        /\ matrixC1' = K
        /\ s' = OversamplingParameter(matrixA.cols, k)
    /\ fn' = "Adaptive"
    /\ pc' = "as_oversample"
    /\ indexAtilde' = Blank /\ prob' = Blank /\ indexC2' = Blank
    /\ err' = "none"
    /\ result' = NoResult
    /\ UNCHANGED matrixA
    /\ UNCHANGED sketchVars

\* indexAtilde = np.random.choice(n, s, replace=False) (line 212)
Oversample ==
    /\ pc = "as_oversample"
    /\ \/ \* a negative size raises
          /\ s < 0
          /\ err' = "ValueError" /\ pc' = "done"
          /\ UNCHANGED indexAtilde
       \/ \* no sample of an empty population: raises in the numpy releases that
          \* ask for a > 0, yields the empty array in the others
          /\ s = 0 /\ matrixA.cols = 0
          /\ \/ /\ err' = "ValueError" /\ pc' = "done"
                /\ UNCHANGED indexAtilde
             \/ /\ indexAtilde' = << >>
                /\ pc' = "as_residual"
                /\ UNCHANGED err
       \/ /\ s >= 0 /\ matrixA.cols > 0
          /\ \E d \in DistinctDraws(s, Cols(matrixA.cols)) : indexAtilde' = d
          /\ pc' = "as_residual"
          /\ UNCHANGED err
    /\ UNCHANGED << matrixA, fn, s, result, c2, matrixC1, prob, indexC2 >>
    /\ UNCHANGED sketchVars

\* matrixAtilde, the residual and the probabilities (lines 213-221)
ResidualProb ==
    /\ pc = "as_residual"
    /\ prob' = Normalised([k \in Cols(s) |->
                    SquaredNorm(Residual(matrixA, matrixC1, indexAtilde[k]))])
    /\ pc' = "as_downsample"
    /\ UNCHANGED << matrixA, fn, s, err, result, c2, matrixC1, indexAtilde, indexC2 >>
    /\ UNCHANGED sketchVars

\* indexC2 = np.random.choice(s, c2, replace=False, p=prob) (line 222)
Downsample ==
    /\ pc = "as_downsample"
    /\ \/ \* an empty population: raises when a sample is asked for; with none asked
          \* for, raises or yields the empty array, by numpy release
          /\ s = 0
          /\ \/ /\ err' = "ValueError" /\ pc' = "done"
                /\ UNCHANGED indexC2
             \/ /\ c2 = 0
                /\ indexC2' = << >>
                /\ pc' = "as_return"
                /\ UNCHANGED err
       \/ \* nan probabilities, a sample larger than the population, or fewer
          \* non-zero probabilities than the sample: raises
          /\ s > 0
          /\ \/ \E k \in Cols(s) : IsNaN(prob[k])
             \/ c2 > s
             \/ Cardinality(Support(prob)) < c2
          /\ err' = "ValueError" /\ pc' = "done"
          /\ UNCHANGED indexC2
       \/ /\ s > 0
          /\ \A k \in Cols(s) : ~IsNaN(prob[k])
          /\ c2 <= s
          /\ Cardinality(Support(prob)) >= c2
          /\ \E d \in DistinctDraws(c2, Support(prob)) : indexC2' = d
          /\ pc' = "as_return"
          /\ UNCHANGED err
    /\ UNCHANGED << matrixA, fn, s, result, c2, matrixC1, indexAtilde, prob >>
    /\ UNCHANGED sketchVars

\* return indexAtilde[indexC2] (line 223)
AdaptiveReturn ==
    /\ pc = "as_return"
    /\ result' = [k \in DOMAIN indexC2 |-> indexAtilde[indexC2[k]]]
    /\ pc' = "done"
    /\ UNCHANGED << matrixA, fn, s, err, c2, matrixC1, indexAtilde, prob, indexC2 >>
    /\ UNCHANGED sketchVars

Init ==
    /\ matrixA \in Matrices
    /\ fn = "none"
    /\ pc = "idle"
    /\ s = 0
    /\ arrival = Blank
    /\ hashedIndices = Blank
    /\ randSigns = Blank
    /\ signedA = Blank
    /\ matrixC = Blank
    /\ i = 0
    /\ j = 0
    /\ parts = Blank
    /\ ran = {}
    /\ local = Blank
    /\ merged = {}
    /\ reduced = Blank
    /\ err = "none"
    /\ result = NoResult
    /\ c2 = 0
    /\ matrixC1 = {}
    /\ indexAtilde = Blank
    /\ prob = Blank
    /\ indexC2 = Blank

NextInMemroy ==
    \/ InMemroyCall
    \/ InMemroyLoop
    \/ InMemroyReturn

NextStreaming ==
    \/ StreamingCall
    \/ StreamingLoop
    \/ StreamingReturn

NextMapReduce ==
    \/ MapReduceCall
    \/ MapTask
    \/ ReduceMerge
    \/ Collect

NextAdaptive ==
    \/ AdaptiveCall
    \/ Oversample
    \/ ResidualProb
    \/ Downsample
    \/ AdaptiveReturn

\* The count-sketch session: any of the three sketches, with task failures
Next ==
    \/ NextInMemroy
    \/ NextStreaming
    \/ NextMapReduce
    \/ RetryTask

\* One call of countSketchInMemroy, of countSketchStreaming, of countSketchMapReduce
\* with no task failure, and any call with task failures.
SpecInMemroy == Init /\ [][NextInMemroy]_vars
SpecStreaming == Init /\ [][NextStreaming]_vars
SpecMapReduce == Init /\ [][NextMapReduce]_vars

\* One call of either of the two functions that take the matrix itself
NextInProcess ==
    \/ NextInMemroy
    \/ NextStreaming

SpecInProcess == Init /\ [][NextInProcess]_vars

\* One call of incompleteAdaptiveSampling
SpecAdaptive == Init /\ [][NextAdaptive]_vars
Spec == Init /\ [][Next]_vars

\* ------------------------------------------------------------- the claims
Returned(f) == fn = f /\ pc = "done" /\ err = "none"
InOrder == \A k \in DOMAIN arrival : arrival[k] = k

\* The n x s matrix S of the algorithm description (lines 60, 73): row c holds the
\* sign g[c] at column h[c] and 0 elsewhere.
SketchingMatrix(h, g, n, w) ==
    [c \in Cols(n) |-> [b \in Cols(w) |-> IF h[c] = b THEN g[c] ELSE 0]]

\* The matrix product A S, of shape (A.rows, w)
Product(A, S, w) ==
    Array2(A.rows, w,
           [r \in Rows(A.rows) |->
               [b \in Cols(w) |->
                   SumFrom([c \in Cols(A.cols) |-> A.val[r][c] * S[c][b]],
                           Cols(A.cols), A.cols - 1)]])

NonZeros(row) == { b \in DOMAIN row : row[b] # 0 }

\* C2: the matrix countSketchInMemroy returns is A S, where every row c of S has
\* exactly one nonzero entry, the sign g[c] in {+1, -1} at column h[c] in [0, s).
C2_InMemroyIsProduct ==
    Returned("InMemroy") =>
        LET S == SketchingMatrix(hashedIndices, randSigns, matrixA.cols, s)
        IN  /\ result = Product(matrixA, S, s)
            /\ \A c \in Cols(matrixA.cols) :
                  /\ hashedIndices[c] \in Cols(s)
                  /\ randSigns[c] \in {-1, 1}
                  /\ NonZeros(S[c]) = {hashedIndices[c]}
                  /\ S[c][hashedIndices[c]] = randSigns[c]

\* C2 witness: a returned in-memory sketch in which two columns of opposite sign
\* share one bucket and another bucket is left without a column.
C2_Witness ==
    /\ Returned("InMemroy")
    /\ matrixA.cols = 2 /\ s = 2
    /\ hashedIndices[0] = hashedIndices[1]
    /\ randSigns[0] # randSigns[1]
    /\ \E r \in Rows(matrixA.rows) : result.val[r][hashedIndices[0]] # 0

\* The accumulator the streaming loop must hold after k passes: bucket b of row r is
\* the sum of g[p] * passed[r][p] over the positions p < k drawn into b.
PartialSketch(passed, h, g, w, k) ==
    Array2(passed.rows, w,
           [r \in Rows(passed.rows) |->
               [b \in Cols(w) |->
                   SumFrom([p \in Cols(passed.cols) |-> g[p] * passed.val[r][p]],
                           { p \in Cols(k) : h[p] = b }, k - 1)]])

C4_PartialSum ==
    (fn = "Streaming" /\ (pc = "stream_loop" \/ Returned("Streaming"))) =>
        /\ j \in 0 .. matrixA.cols
        /\ matrixC = PartialSketch(Fed(matrixA, arrival), hashedIndices, randSigns, s, j)

C4_OnlyOwnBucket ==
    (pc = "stream_loop" /\ j' = j + 1) =>
        \A r \in Rows(matrixA.rows) : \A b \in Cols(s) \ {hashedIndices[j]} :
            matrixC'.val[r][b] = matrixC.val[r][b]

\* C4: the streaming accumulator starts as the all-zero m x s matrix; after k passes
\* of the loop it is the sum over the columns processed so far of sign * column added
\* into the column's bucket; and a pass changes no bucket but that of its column.
C4_StreamingAccumulator ==
    /\ [](pc = "stream_loop" /\ j = 0 => matrixC = Zeros(matrixA.rows, s))
    /\ []C4_PartialSum
    /\ [][C4_OnlyOwnBucket]_vars

\* C4 witness: mid-loop, one column folded and one still to come, into the same bucket.
C4_Witness ==
    /\ pc = "stream_loop" /\ InOrder
    /\ matrixA.cols = 2 /\ j = 1 /\ s = 2
    /\ hashedIndices[0] = hashedIndices[1]
    /\ matrixC # Zeros(matrixA.rows, s)

\* The draw of each logical column, when position k of the passed matrix holds
\* logical column arrival[k] and got the k-th draw.
ByLogicalIndex(draws) ==
    [c \in Cols(matrixA.cols) |-> draws[CHOOSE k \in DOMAIN arrival : arrival[k] = c]]

\* C7: the columns fed in any order of arrival, each with the draw of its logical
\* index, give the final sketch that feeding them in the order 0..n-1 gives.
C7_OrderIndependent ==
    Returned("Streaming") =>
        result = StreamingRun(matrixA, s, ByLogicalIndex(hashedIndices),
                              ByLogicalIndex(randSigns))

\* C7 witness: two different columns arrived in reverse order and met in one bucket.
C7_Witness ==
    /\ Returned("Streaming")
    /\ matrixA.cols = 2
    /\ arrival[0] = 1 /\ arrival[1] = 0
    /\ hashedIndices[0] = hashedIndices[1]
    /\ Column(matrixA, 0) # Column(matrixA, 1)

\* The two states of the streaming sketch: Open while the loop of lines 182-186
\* runs, Finalized once line 187 has returned the accumulator.
Open == fn = "Streaming" /\ pc = "stream_loop"
Finalized == Returned("Streaming")

C9_FoldOnlyInOpen == (fn = "Streaming" /\ pc # "idle" /\ matrixC' # matrixC) => Open
C9_FinalizeEndsOpen ==
    (Open /\ ~Open') => (j = matrixA.cols /\ Finalized' /\ result' = matrixC /\ matrixC' = matrixC)
C9_FinalizedIsLast == Finalized => (Finalized' /\ matrixC' = matrixC /\ result' = result)

C1_ThreeSketchesAgree ==
    /\ (Returned("Streaming") /\ InOrder) =>
            result = InMemroyRun(matrixA, s, hashedIndices, randSigns)
    /\ (Returned("MapReduce") /\ s >= 1) =>
            result = InMemroyRun(matrixA, s, hashedIndices, randSigns)

\* C3 as stated: every sketch called with an m x n matrix and s >= 1 returns a 2-d
\* array of m rows and s columns, all zero when n = 0.
C3_ShapeIsMByS ==
    (pc = "done" /\ err = "none" /\ s >= 1) =>
        /\ result.ndim = 2 /\ result.rows = matrixA.rows /\ result.cols = s
        /\ matrixA.cols = 0 => result = Zeros(matrixA.rows, s)

\* C5 as stated: in every returned sketch a bucket no column was drawn into stands
\* at its own position and is the zero vector.
C5_EmptyBucketIsZero ==
    (pc = "done" /\ err = "none" /\ s >= 1) =>
        \A b \in Cols(s) :
            (\A c \in DOMAIN hashedIndices : hashedIndices[c] # b) =>
                /\ result.ndim = 2 /\ b \in Cols(result.cols)
                /\ \A r \in Rows(matrixA.rows) : result.val[r][b] = 0

\* The elementwise sum of two sketches of one shape (the merge of two accumulators)
MatAdd(X, Y) ==
    Array2(X.rows, X.cols,
           [r \in Rows(X.rows) |-> [b \in Cols(X.cols) |-> X.val[r][b] + Y.val[r][b]]])

\* The in-memory sketch of the columns of A that stand in T, with their own draws:
\* the other columns are taken as absent (zero).
SketchOfColumns(A, w, h, g, T) ==
    InMemroyRun(Array2(A.rows, A.cols,
                       [r \in Rows(A.rows) |->
                           [c \in Cols(A.cols) |-> IF c \in T THEN A.val[r][c] ELSE 0]]),
                w, h, g)

RECURSIVE MergeOfPartitions(_, _, _, _, _, _)
MergeOfPartitions(A, w, h, g, f, P) ==
    IF P = {} THEN Zeros(A.rows, w)
    ELSE LET p == CHOOSE q \in P : TRUE
         IN  MatAdd(SketchOfColumns(A, w, h, g, ColsOf(f, p)),
                    MergeOfPartitions(A, w, h, g, f, P \ {p}))

\* C6 as stated: the sketch of all the columns is the merge of the sketches of the
\* partitions taken separately, and, whatever the split and the order of merging,
\* that is the result of the map-reduce sketch.
C6_ColumnAdditive ==
    (Returned("MapReduce") /\ s >= 1) =>
        /\ InMemroyRun(matrixA, s, hashedIndices, randSigns)
              = MergeOfPartitions(matrixA, s, hashedIndices, randSigns, parts, PartitionIds)
        /\ result = MergeOfPartitions(matrixA, s, hashedIndices, randSigns, parts, PartitionIds)

\* C8 as stated: a map task run again produces the partition-local pairs the attempt
\* before it produced, so that nothing the reducer will merge has changed.
C8_RetryIsIdempotent == [][RetryTask => local' = local]_vars

\* C10 as stated: every sketch called with s <= 0 fails and returns no matrix.
C10_NonPositiveWidthFails ==
    (pc = "done" /\ s <= 0) => (err # "none" /\ result = NoResult)

\* C11: a call of countSketchInMemroy (its sign flip included) or of
\* countSketchStreaming writes its own arrays only: no step of it changes an entry
\* of the caller's matrix, which after the call holds what it held before.
C11_InputUntouched == [][matrixA' = matrixA]_vars

\* C11 witness: an in-memory call has returned after flipping the sign of a column
\* in its own copy.
C11_Witness ==
    /\ Returned("InMemroy")
    /\ matrixA.cols >= 1
    /\ \E c \in Cols(matrixA.cols) : randSigns[c] = -1
    /\ signedA # matrixA

\* What the map task of partition p holds once it has taken the columns 0..c of the
\* file that stand in its partition
HeldAfter(p, c) == CombineByKey(matrixA, parts, p, hashedIndices, randSigns, c)

\* The number of values in a keyed set of vectors
ValuesIn(d) == SumFrom([k \in DOMAIN d |-> Cardinality(DOMAIN d[k])], DOMAIN d, MaxS)

\* C12: before the reducer fetches anything, what a map task holds after any number
\* of its partition's columns is keyed by buckets in [0, s) only, one vector of m
\* values per key: at most s vectors and m*s values, however many columns the
\* partition has; what it ships (local[p]) is what it holds at the end.
C12_LocalBoundedByS ==
    (fn = "MapReduce" /\ merged = {}) =>
        \A p \in ran :
            /\ local[p] = HeldAfter(p, matrixA.cols - 1)
            /\ \A c \in (-1)..(matrixA.cols - 1) :
                LET d == HeldAfter(p, c)
                IN  /\ DOMAIN d \subseteq Cols(s)
                    /\ \A k \in DOMAIN d : DOMAIN d[k] = Rows(matrixA.rows)
                    /\ s >= 0 => /\ Cardinality(DOMAIN d) <= s
                                 /\ ValuesIn(d) <= matrixA.rows * s

\* C12 witness: a map task has run over a partition with more columns than the
\* sketch has buckets, and holds fewer vectors than it took columns.
C12_Witness ==
    /\ fn = "MapReduce" /\ pc = "mr_run" /\ merged = {}
    /\ \E p \in ran :
        /\ Cardinality(ColsOf(parts, p)) > s
        /\ s >= 1
        /\ Cardinality(DOMAIN local[p]) < Cardinality(ColsOf(parts, p))
        /\ Cardinality(DOMAIN local[p]) = s

\* The call of incompleteAdaptiveSampling has gone past line 212
Oversampled == fn = "Adaptive" /\ pc \in {"as_residual", "as_downsample", "as_return"}

Distinct(f) == \A x, y \in DOMAIN f : x # y => f[x] # f[y]
Range(f) == { f[x] : x \in DOMAIN f }

\* C13: whatever the matrix (of at least one column) and the count c2 >= 1,
\* incompleteAdaptiveSampling runs with an oversampling parameter s > c2, holds s
\* distinct columns of A after its uniform draw, raises nothing, and returns c2
\* pairwise distinct column indices of A, all of them among the oversampled ones.
C13_OversampleThenDownsample ==
    (fn = "Adaptive" /\ c2 >= 1 /\ matrixA.cols >= 1) =>
        /\ s > c2
        /\ err = "none"
        /\ Oversampled =>
            /\ DOMAIN indexAtilde = Cols(s)
            /\ Distinct(indexAtilde)
            /\ Range(indexAtilde) \subseteq Cols(matrixA.cols)
        /\ pc = "done" =>
            /\ DOMAIN result = Cols(c2)
            /\ Distinct(result)
            /\ Range(result) \subseteq Range(indexAtilde)
            /\ Range(result) \subseteq Cols(matrixA.cols)
====
